---- MODULE Spec2Model ----
(***************************************************************************)
(* The job registry, worker pool, status log and stage cache of webapp.py.  *)
(*                                                                         *)
(* The tornado IOLoop is single threaded and no handler awaits, so every   *)
(* request handler is one atomic action.  fetch_repo_data runs in a worker  *)
(* process of the ProcessPoolExecutor; its steps interleave with the        *)
(* handlers and with the other workers at every file-system operation.      *)
(* Timestamps are abstracted to the presence of the 'start'/'end' fields.   *)
(***************************************************************************)
EXTENDS Integers, Sequences, FiniteSets, TLC

\* ---------------------------------------------------------------- bounds
\* Distinct documents a producer (GitHub fetch, commit analysis) may return.
MaxData == 2
\* Worker processes of the pool (os.cpu_count() of the host).
MaxWorkers == 1

Keys == {"a/b", "c/d"}
Tokens == {"t1", "t2"}
Formats == {"html", "notebook", "xml"}
Data == 1..MaxData

VARIABLES
    datastore,      \* uuid -> index of its future in futures, 0 when not in the dict
    futures,        \* every future executor.submit has returned, with its worker's locals
    files,          \* ephemeral_storage: per uuid the status file, two artifacts, the clone
    response,       \* the last HTTP response sent (its status_info cut to the kind)
    credentials,    \* history: the distinct tokens availablitiy was called with per uuid,
                    \* in the order of their first call
    github_tokens   \* history: the tokens handed to Github(token) per uuid

vars == <<datastore, futures, files, response, credentials, github_tokens>>

\* ------------------------------------------------------------ file system
NoFile == [exists |-> FALSE, torn |-> FALSE, log |-> <<>>]
\* open(status_file, 'w') has truncated the file and json.dump is not flushed yet.
TornFile == [exists |-> TRUE, torn |-> TRUE, log |-> <<>>]
StatusFile(log) == [exists |-> TRUE, torn |-> FALSE, log |-> log]

NoArtifact == [exists |-> FALSE, ok |-> FALSE, data |-> 0]
\* exists but json.load cannot parse it (truncated by open(cache, 'w'), or damaged)
BadArtifact == [exists |-> TRUE, ok |-> FALSE, data |-> 0]
Artifact(d) == [exists |-> TRUE, ok |-> TRUE, data |-> d]

NoMessage == "None"

Entry(message) == [status |-> message, end |-> FALSE]

\* json.load(fh) of the status file succeeds
Parsable(file) == file.exists /\ ~file.torn

\* lines 66-73 do not raise: json.load parses and existing_status[-1] exists
update_status_reads(file, clear) ==
    \/ ~file.exists
    \/ clear
    \/ (Parsable(file) /\ Len(file.log) > 0)

\* Mutant: line 73 left out, the previous entry stays open.
CloseLast_skipped(log) == log

\* line 73: the last status item is logged as complete
CloseLast(log) == [log EXCEPT ![Len(log)].end = TRUE]

\* lines 66-79: the list that update_status is about to json.dump
update_status(file, message, clear) ==
    LET existing_status == IF ~file.exists \/ clear THEN <<>> ELSE CloseLast(file.log)
    IN  IF message # NoMessage
        THEN Append(existing_status, Entry(message))
        ELSE existing_status

\* ---------------------------------------------------------------- futures
\* What a pipeline execution finds in ephemeral_storage for its uuid when it starts.
Found(disk) ==
    [github |-> disk.github.exists, computed |-> disk.computed.exists, mirror |-> disk.mirror]

NothingFound == [github |-> FALSE, computed |-> FALSE, mirror |-> FALSE]

\* The worker's locals (pc, writing, pend, report, repo_data) and, as history of the
\* execution: found (the storage at its start), checked (the os.path.exists checks of
\* the tiers, in order) and calls (the collaborators and writers it has invoked).
NewFuture(uuid, token) ==
    [uuid |-> uuid, token |-> token, state |-> "PENDING", pc |-> "queued",
     writing |-> FALSE, pend |-> <<>>, report |-> 0, repo_data |-> 0,
     error |-> "", result |-> <<>>,
     found |-> NothingFound, checked |-> <<>>, calls |-> {}]

\* Mutant: 'not future.running()' in place of future.done(): a queued job counts as done.
done_not_running(f) == f.state # "RUNNING"

\* lines 189 and 375: future.done()
done(f) == f.state = "FINISHED"

Raise(f, err) == [f EXCEPT !.state = "FINISHED", !.pc = "raised", !.error = err]

Called(f, names) == [f EXCEPT !.calls = @ \cup names]

\* Mutant: a pool process is not given back when its call has finished.
Running_never_freed == {i \in DOMAIN futures : futures[i].state # "PENDING"}

Running == {i \in DOMAIN futures : futures[i].state = "RUNNING"}

\* Mutant: a uuid whose job has raised counts as unknown, so it is retried.
InDatastore_retry(uuid) == datastore[uuid] # 0 /\ futures[datastore[uuid]].error = ""

\* lines 184 and 356: uuid in datastore
InDatastore(uuid) == datastore[uuid] # 0

Dispatched(uuid) == {i \in DOMAIN futures : futures[i].uuid = uuid}

\* --------------------------------------------------------------- responses
\* status_info is [] on submission, {} while no status file exists, else the parsed log
EmptyList == [kind |-> "list", entries |-> <<>>]
EmptyDict == [kind |-> "dict", entries |-> <<>>]
LogList(log) == [kind |-> "list", entries |-> log]

NoResponse ==
    [handler |-> "none", uuid |-> "", status |-> 0, body |-> "none",
     status_info |-> EmptyList, content |-> <<>>, error |-> ""]

Reply(handler, uuid, status, body, info, content, error) ==
    [handler |-> handler, uuid |-> uuid, status |-> status, body |-> body,
     status_info |-> info, content |-> content, error |-> error]

\* What the response variable keeps of a reply.
Sent(r) == [r EXCEPT !.status_info.entries = <<>>]

\* An exception that leaves the handler: tornado answers 500.
Uncaught(handler, uuid) == Reply(handler, uuid, 500, "exception", EmptyList, <<>>, "")

\* ------------------------------------------------- APIDataAvailableHandler
\* lines 357-359: the futures after executor.submit(fetch_repo_data, uuid, token)
executor_submit(uuid, token) == Append(futures, NewFuture(uuid, token))

\* Mutant: a later submitter's token replaces the one the stored job was given.
stored_future_refreshed(uuid, token) == [futures EXCEPT ![datastore[uuid]].token = token]

\* lines 365-366: the else branch only reads the stored future
stored_future(uuid, token) == futures

\* Mutant: line 359 left out, the future is never stored.
store_forgotten(uuid) == datastore

\* line 359: datastore[uuid] = future
store(uuid) == [datastore EXCEPT ![uuid] = Len(futures) + 1]

Seen(uuid) == {credentials[uuid][n] : n \in DOMAIN credentials[uuid]}

\* lines 353-366: what availablitiy does to the registry and the executor
registry(uuid, token) ==
    /\ credentials' = IF token \in Seen(uuid) THEN credentials
                      ELSE [credentials EXCEPT ![uuid] = Append(@, token)]
    /\ IF ~InDatastore(uuid)
       THEN /\ futures' = executor_submit(uuid, token)
            /\ datastore' = store(uuid)
       ELSE /\ futures' = stored_future(uuid, token)
            /\ datastore' = datastore

\* lines 375-383: the status answered for a future that is in the datastore
status_of(future, info) ==
    IF done(future) THEN [status |-> 200, body |-> "ready", info |-> info]
    ELSE [status |-> 202, body |-> "running", info |-> info]

\* Mutant: the submitting request reports the status file it finds on disk.
submitted_stale(handler, uuid) ==
    Reply(handler, uuid, 202, "submitted", LogList(files[uuid].status.log), <<>>, "")

\* lines 361-364: the answer to the request that submitted the job
submitted(handler, uuid) == Reply(handler, uuid, 202, "submitted", EmptyList, <<>>, "")

\* lines 356-383: the dict availablitiy returns (or the exception it raises)
availablitiy(handler, uuid) ==
    IF ~InDatastore(uuid)
    THEN submitted(handler, uuid)
    ELSE LET future == futures[datastore[uuid]]
             status_file == files[uuid].status
         IN  IF status_file.exists /\ ~Parsable(status_file)
             THEN Uncaught(handler, uuid)
             ELSE LET status == IF ~status_file.exists THEN EmptyDict
                                ELSE LogList(status_file.log)
                      r == status_of(future, status)
                  IN  Reply(handler, uuid, r.status, r.body, r.info, <<>>, "")

IsReady(r) == r.status = 200 /\ r.body = "ready"

\* lines 305-310: POST /api/request/<uuid>
post(uuid, token) ==
    /\ registry(uuid, token)
    /\ response' = Sent(availablitiy("post", uuid))
    /\ UNCHANGED <<files, github_tokens>>

\* lines 403-412: the branch of resp taken when availablitiy answered 200
resp_result(uuid) ==
    LET future == futures[datastore[uuid]]
    IN  IF future.error = ""
        THEN Reply("resp", uuid, 200, "content", EmptyList, future.result, "")
        \* the dict with status 500, message and traceback is returned to get/post,
        \* which drop it: tornado finishes the request with an empty 200
        ELSE Reply("resp", uuid, 200, "empty", EmptyList, <<>>, "")

\* lines 397-412: what resp answers
resp_reply(uuid) ==
    LET r == availablitiy("resp", uuid)
    IN  IF ~IsReady(r) THEN r ELSE resp_result(uuid)

\* lines 396-412: GET or POST /api/data/<uuid>
resp(uuid, token) ==
    /\ registry(uuid, token)
    /\ response' = Sent(resp_reply(uuid))
    /\ UNCHANGED <<files, github_tokens>>

\* ------------------------------------------------------------- RepoReport
\* lines 193-201 and 284: the page rendered for a future that is done
report_page(uuid) ==
    LET future == futures[datastore[uuid]]
    IN  IF future.error = ""
        THEN Reply("get", uuid, 200, "report", EmptyList, future.result, "")
        ELSE Reply("get", uuid, 500, "error", EmptyList, <<>>, future.error)

\* lines 171-174
report_not_ready(uuid) == Reply("get", uuid, 200, "pending", EmptyList, <<>>, "")

\* lines 178-284: what get answers
get_reply(uuid, format) ==
    IF format \notin {"notebook", "html"}
    THEN Reply("get", uuid, 400, "invalid_format", EmptyList, <<>>, "")
    ELSE IF ~InDatastore(uuid) THEN report_not_ready(uuid)
    ELSE IF ~done(futures[datastore[uuid]]) THEN report_not_ready(uuid)
    ELSE report_page(uuid)

\* lines 177-284: GET /report/<org_user>/<repo_name>
get(uuid, format) ==
    /\ response' = get_reply(uuid, format)
    /\ UNCHANGED <<datastore, futures, files, credentials, github_tokens>>

\* -------------------------------------------------------- fetch_repo_data
\* The worker running futures[i] is at pc and is not inside a status write.
At(i, pc) ==
    /\ i \in DOMAIN futures
    /\ futures[i].state = "RUNNING"
    /\ futures[i].pc = pc
    /\ ~futures[i].writing

Unchanged_handlers == UNCHANGED <<datastore, response, credentials>>

\* lines 64-81: update_status up to open(status_file, 'w'), which truncates the file;
\* the worker goes on at next once the write is flushed (status_written)
\* f and disk are the worker's locals and the storage as the caller leaves them
status_write(i, f, disk, message, clear, next) ==
    LET uuid == f.uuid
        status_file == disk[uuid].status
    IN  IF update_status_reads(status_file, clear)
        THEN /\ futures' = [futures EXCEPT ![i] =
                    [f EXCEPT !.pc = next, !.writing = TRUE,
                              !.pend = update_status(status_file, message, clear)]]
             /\ files' = [disk EXCEPT ![uuid].status = TornFile]
        ELSE /\ futures' = [futures EXCEPT ![i] = Raise(f, "update_status")]
             /\ files' = disk

\* lines 81-82: json.dump and the close of the with block publish the new log
status_written(i) ==
    /\ i \in DOMAIN futures
    /\ futures[i].state = "RUNNING"
    /\ futures[i].writing
    /\ files' = [files EXCEPT ![futures[i].uuid].status = StatusFile(futures[i].pend)]
    /\ futures' = [futures EXCEPT ![i].writing = FALSE, ![i].pend = <<>>]
    /\ UNCHANGED github_tokens
    /\ Unchanged_handlers

\* A pool process takes the call from the queue.
worker_start(i) ==
    /\ i \in DOMAIN futures
    /\ futures[i].state = "PENDING"
    /\ Cardinality(Running) < MaxWorkers
    /\ futures' = [futures EXCEPT ![i].state = "RUNNING", ![i].pc = "init",
                                  ![i].found = Found(files[futures[i].uuid])]
    /\ UNCHANGED <<files, github_tokens>>
    /\ Unchanged_handlers

\* lines 84-90
initial_validation(i) ==
    /\ At(i, "init")
    /\ status_write(i, futures[i], files, "Initial validation of repo", TRUE, "get_repo")
    /\ UNCHANGED github_tokens
    /\ Unchanged_handlers

\* line 91: the credential the GitHub client is built with
fetcher_token(f) == f.token

\* lines 91-92: Github(token).get_repo(uuid) answers or raises
get_repo(i, ok) ==
    /\ At(i, "get_repo")
    /\ github_tokens' = [github_tokens EXCEPT ![futures[i].uuid] = @ \cup {fetcher_token(futures[i])}]
    /\ LET f == Called(futures[i], {"get_repo"})
       IN  futures' = [futures EXCEPT ![i] =
               IF ok THEN [f EXCEPT !.pc = "github_cache"] ELSE Raise(f, "get_repo")]
    /\ UNCHANGED files
    /\ Unchanged_handlers

\* Mutant: the artifact on disk is disregarded and the data is always fetched.
github_hit_never(disk) == FALSE

\* line 94: os.path.exists(cache)
github_hit(disk) == disk.github.exists

\* lines 94-95 and 102
github_cache(i) ==
    /\ At(i, "github_cache")
    /\ LET f == [futures[i] EXCEPT !.checked = Append(@, "github")]
       IN  IF github_hit(files[f.uuid])
           THEN status_write(i, f, files, "Load GitHub API data from ephemeral cache", FALSE, "load_github")
           ELSE status_write(i, f, files, "Fetching GitHub API data", FALSE, "raw_data")
    /\ UNCHANGED github_tokens
    /\ Unchanged_handlers

\* lines 96-97
load_github(i) ==
    /\ At(i, "load_github")
    /\ LET cache == files[futures[i].uuid].github
           f == Called(futures[i], {"load_github"})
       IN  futures' = [futures EXCEPT ![i] =
               IF cache.exists /\ cache.ok
               THEN [f EXCEPT !.pc = "computed_cache", !.report = cache.data]
               ELSE Raise(f, "load_github")]
    /\ UNCHANGED <<files, github_tokens>>
    /\ Unchanged_handlers

\* lines 103-105
raw_data(i) ==
    /\ At(i, "raw_data")
    /\ status_write(i, Called(futures[i], {"raw_data"}), files,
                    "Fetching GitHub issues data", FALSE, "get_issues")
    /\ UNCHANGED github_tokens
    /\ Unchanged_handlers

\* lines 106-112
get_issues(i, ok) ==
    /\ At(i, "get_issues")
    /\ LET f == Called(futures[i], {"get_issues"})
       IN  IF ok
           THEN status_write(i, f, files, "Fetching GitHub stargazer data", FALSE, "get_stargazers")
           ELSE /\ futures' = [futures EXCEPT ![i] = Raise(f, "get_issues")]
                /\ files' = files
    /\ UNCHANGED github_tokens
    /\ Unchanged_handlers

\* Mutant: the artifact is opened for writing before the stargazers are fetched.
stargazers_raised_opened(uuid) == [files EXCEPT ![uuid].github = BadArtifact]

\* lines 113-116: the storage when get_stargazers_with_dates raises; line 118 is not reached
stargazers_raised(uuid) == files

\* lines 113-118: the stargazers are fetched, then open(cache, 'w') truncates the artifact
get_stargazers(i, ok, d) ==
    /\ At(i, "get_stargazers")
    /\ LET f == Called(futures[i], {"get_stargazers"})
       IN  IF ok
           THEN /\ futures' = [futures EXCEPT ![i] =
                       [Called(f, {"open_github"}) EXCEPT !.pc = "dump_github", !.report = d]]
                /\ files' = [files EXCEPT ![f.uuid].github = BadArtifact]
           ELSE /\ futures' = [futures EXCEPT ![i] = Raise(f, "get_stargazers")]
                /\ files' = stargazers_raised(f.uuid)
    /\ UNCHANGED github_tokens
    /\ Unchanged_handlers

\* line 119
dump_github(i) ==
    /\ At(i, "dump_github")
    /\ files' = [files EXCEPT ![futures[i].uuid].github = Artifact(futures[i].report)]
    /\ futures' = [futures EXCEPT ![i].pc = "computed_cache"]
    /\ UNCHANGED github_tokens
    /\ Unchanged_handlers

\* line 122: os.path.exists(cache) of the computed artifact
computed_hit(disk) == disk.computed.exists

\* Mutant: the clone on disk is disregarded and the repo is always cloned.
mirror_exists_never(disk) == FALSE

\* Mutant: the repo is taken to be cloned already.
mirror_exists_always(disk) == TRUE

\* line 124: os.path.exists(target)
mirror_exists(disk) == disk.mirror

\* Mutant: the clone is looked for before the computed artifact.
tier_checks_mirror_first(disk) == <<"mirror", "computed">>

\* lines 122 and 124: the existence checks made, in order; the clone is only looked
\* for when the computed artifact is missing
tier_checks(disk) == IF computed_hit(disk) THEN <<"computed">> ELSE <<"computed", "mirror">>

\* lines 121-125, 130 and 138
computed_cache(i) ==
    /\ At(i, "computed_cache")
    /\ LET disk == files[futures[i].uuid]
           f == [futures[i] EXCEPT !.checked = @ \o tier_checks(disk)]
       IN  IF computed_hit(disk)
           THEN status_write(i, f, files, "Load commit from ephemeral cache", FALSE, "load_computed")
           ELSE IF mirror_exists(disk)
           THEN status_write(i, f, files, "Fetching remotes from cached clone", FALSE, "fetch_remotes")
           ELSE status_write(i, f, files, "Cloning repo", FALSE, "clone_from")
    /\ UNCHANGED github_tokens
    /\ Unchanged_handlers

\* lines 126-128 and 133
fetch_remotes(i, ok) ==
    /\ At(i, "fetch_remotes")
    /\ LET f == Called(futures[i], {"fetch_remotes"})
       IN  IF ok
           THEN status_write(i, f, files, "Analysing commits", FALSE, "commits")
           ELSE /\ futures' = [futures EXCEPT ![i] = Raise(f, "fetch_remotes")]
                /\ files' = files
    /\ UNCHANGED github_tokens
    /\ Unchanged_handlers

\* lines 131 and 133: git creates the target directory while cloning
clone_from(i, ok) ==
    /\ At(i, "clone_from")
    /\ LET f == Called(futures[i], {"clone_from"})
       IN  IF ok
           THEN status_write(i, f, [files EXCEPT ![f.uuid].mirror = TRUE],
                             "Analysing commits", FALSE, "commits")
           ELSE /\ futures' = [futures EXCEPT ![i] = Raise(f, "clone_from")]
                /\ files' = files
    /\ UNCHANGED github_tokens
    /\ Unchanged_handlers

\* lines 134-135: the analysis answers, then open(cache, 'w') truncates the artifact
commits(i, ok, d) ==
    /\ At(i, "commits")
    /\ LET f == Called(futures[i], {"commits"})
       IN  IF ok
           THEN /\ futures' = [futures EXCEPT ![i] =
                       [Called(f, {"open_computed"}) EXCEPT !.pc = "dump_computed", !.repo_data = d]]
                /\ files' = [files EXCEPT ![f.uuid].computed = BadArtifact]
           ELSE /\ futures' = [futures EXCEPT ![i] = Raise(f, "commits")]
                /\ files' = files
    /\ UNCHANGED github_tokens
    /\ Unchanged_handlers

\* line 136
dump_computed(i) ==
    /\ At(i, "dump_computed")
    /\ files' = [files EXCEPT ![futures[i].uuid].computed = Artifact(futures[i].repo_data)]
    /\ futures' = [futures EXCEPT ![i].pc = "round_off"]
    /\ UNCHANGED github_tokens
    /\ Unchanged_handlers

\* lines 139-140
load_computed(i) ==
    /\ At(i, "load_computed")
    /\ LET cache == files[futures[i].uuid].computed
           f == Called(futures[i], {"load_computed"})
       IN  futures' = [futures EXCEPT ![i] =
               IF cache.exists /\ cache.ok
               THEN [f EXCEPT !.pc = "round_off", !.repo_data = cache.data]
               ELSE Raise(f, "load_computed")]
    /\ UNCHANGED <<files, github_tokens>>
    /\ Unchanged_handlers

\* lines 142-143
round_off(i) ==
    /\ At(i, "round_off")
    /\ status_write(i, futures[i], files, NoMessage, FALSE, "return")
    /\ UNCHANGED github_tokens
    /\ Unchanged_handlers

\* lines 145-146: the future is set to the returned document
payload(f) == <<f.repo_data, f.report>>

return(i) ==
    /\ At(i, "return")
    /\ futures' = [futures EXCEPT ![i] =
            [@ EXCEPT !.state = "FINISHED", !.pc = "returned", !.result = payload(futures[i])]]
    /\ UNCHANGED <<files, github_tokens>>
    /\ Unchanged_handlers

\* ------------------------------------------------------------ specification
\* What an earlier process lifetime may have left in ephemeral_storage for one uuid.
StaleLog ==
    <<[status |-> "Initial validation of repo", end |-> TRUE],
      [status |-> "Cloning repo", end |-> FALSE]>>

Clean == [status |-> NoFile, github |-> NoArtifact, computed |-> NoArtifact, mirror |-> FALSE]

InitialStatus == {NoFile, TornFile, StatusFile(StaleLog)}
InitialArtifact == {NoArtifact, BadArtifact} \cup {Artifact(d) : d \in Data}

Storage ==
    [status : InitialStatus, github : InitialArtifact, computed : InitialArtifact,
     mirror : BOOLEAN]

\* Two leftovers of an earlier lifetime: a run abandoned while cloning, and a finished run
\* whose GitHub artifact was removed.
Leftovers ==
    {[status |-> StatusFile(StaleLog), github |-> Artifact(1), computed |-> NoArtifact,
      mirror |-> TRUE],
     [status |-> NoFile, github |-> NoArtifact, computed |-> Artifact(1), mirror |-> TRUE]}

Fresh ==
    /\ datastore = [k \in Keys |-> 0]
    /\ futures = <<>>
    /\ response = NoResponse
    /\ credentials = [k \in Keys |-> <<>>]
    /\ github_tokens = [k \in Keys |-> {}]

\* line 448: an empty datastore; "a/b" has leftovers on disk, "c/d" has none
Init ==
    /\ Fresh
    /\ \E s \in Leftovers : files = [k \in Keys |-> IF k = "a/b" THEN s ELSE Clean]

\* line 448: an empty datastore over any storage of "a/b"
InitDisk ==
    /\ Fresh
    /\ \E s \in Storage : files = [k \in Keys |-> IF k = "a/b" THEN s ELSE Clean]

\* The requests clients send for the uuids in K with the tokens in T.
Requests(K, T) ==
    \/ \E uuid \in K, token \in T : post(uuid, token)
    \/ \E uuid \in K, token \in T : resp(uuid, token)
    \/ \E uuid \in K, format \in Formats : get(uuid, format)

\* The steps of the pool's worker processes.
Workers ==
    \/ \E i \in DOMAIN futures : worker_start(i)
    \/ \E i \in DOMAIN futures : status_written(i)
    \/ \E i \in DOMAIN futures : initial_validation(i)
    \/ \E i \in DOMAIN futures, ok \in BOOLEAN : get_repo(i, ok)
    \/ \E i \in DOMAIN futures : github_cache(i)
    \/ \E i \in DOMAIN futures : load_github(i)
    \/ \E i \in DOMAIN futures : raw_data(i)
    \/ \E i \in DOMAIN futures, ok \in BOOLEAN : get_issues(i, ok)
    \/ \E i \in DOMAIN futures, ok \in BOOLEAN, d \in Data : get_stargazers(i, ok, d)
    \/ \E i \in DOMAIN futures : dump_github(i)
    \/ \E i \in DOMAIN futures : computed_cache(i)
    \/ \E i \in DOMAIN futures, ok \in BOOLEAN : fetch_remotes(i, ok)
    \/ \E i \in DOMAIN futures, ok \in BOOLEAN : clone_from(i, ok)
    \/ \E i \in DOMAIN futures, ok \in BOOLEAN, d \in Data : commits(i, ok, d)
    \/ \E i \in DOMAIN futures : dump_computed(i)
    \/ \E i \in DOMAIN futures : load_computed(i)
    \/ \E i \in DOMAIN futures : round_off(i)
    \/ \E i \in DOMAIN futures : return(i)

Next == Requests(Keys, {"t1"}) \/ Workers

NextDisk == Requests({"a/b"}, Tokens) \/ Workers

\* Requests for two uuids with one token over the two leftovers.
Spec == Init /\ [][Next]_vars

\* Requests for one uuid with two tokens over every storage.
SpecDisk == InitDisk /\ [][NextDisk]_vars

\* The server process ends while futures are stored (killed, or stopped by the operator)
\* and is started again: line 448 builds a new datastore and line 459 a new executor;
\* the workers of the old pool are abandoned at whatever statement they had reached and
\* ephemeral_storage stays as they left it.
restart ==
    /\ futures # <<>>
    /\ datastore' = [k \in Keys |-> 0]
    /\ futures' = <<>>
    /\ response' = NoResponse
    /\ credentials' = [k \in Keys |-> <<>>]
    /\ github_tokens' = [k \in Keys |-> {}]
    /\ files' = files

\* line 448 over an empty ephemeral_storage
InitRestart ==
    /\ Fresh
    /\ files = [k \in Keys |-> Clean]

NextRestart == Requests({"a/b"}, {"t1"}) \/ Workers \/ restart

\* Requests for one uuid over successive lifetimes of the server, the first of which
\* starts with nothing on disk.
SpecRestart == InitRestart /\ [][NextRestart]_vars

\* Clients that only post, which submits and then polls.
NextLive == (\E uuid \in Keys : post(uuid, "t1")) \/ Workers

\* The pool is not shut down and every call a worker makes returns or raises: a worker
\* step that can be taken is taken in the end.
SpecLive == Init /\ [][NextLive]_vars /\ WF_vars(Workers)

\* ----------------------------------------------------------------- claims
\* The job stored for uuid has finished (returned or raised).
Terminal(uuid) == datastore[uuid] # 0 /\ done(futures[datastore[uuid]])

Failed(uuid) == Terminal(uuid) /\ futures[datastore[uuid]].error # ""

\* C1: within one datastore lifetime fetch_repo_data is dispatched at most once per
\* uuid, and every request for the uuid refers to the one stored future: every future
\* ever submitted for a uuid is the future the datastore holds for it.
C1_OneDispatchPerKey ==
    \A k \in Keys : Dispatched(k) \subseteq {datastore[k]}

\* A second request for a uuid was answered 'still running' from the one stored future.
C1_Witness ==
    \E k \in Keys :
        /\ response.handler = "post" /\ response.uuid = k /\ response.body = "running"
        /\ Dispatched(k) = {datastore[k]}

\* C2: the only credential handed to the GitHub client for a uuid is the credential of
\* the first submission for it; a later submitter's credential is never used.
C2_FirstCredentialOnly ==
    \A k \in Keys :
        /\ github_tokens[k] \subseteq {credentials[k][n] : n \in DOMAIN credentials[k] \cap {1}}
        /\ \A i \in Dispatched(k) : credentials[k] # <<>> /\ futures[i].token = credentials[k][1]

\* Two different credentials were submitted for a uuid and the fetcher has run.
C2_Witness ==
    \E k \in Keys : Len(credentials[k]) = 2 /\ github_tokens[k] = {credentials[k][1]}

\* C3: from a state in which a status request answers 200 'ready' for a uuid on, no
\* submit, status or result request for it answers running (202), submitted or pending,
\* and no pipeline is dispatched for it.
C3_TerminalNeverRegresses ==
    [][\A k \in Keys :
          IsReady(availablitiy("post", k)) =>
              /\ IsReady(availablitiy("post", k))'
              /\ (resp_reply(k).body \in {"content", "empty"})'
              /\ \A format \in {"notebook", "html"} :
                     (get_reply(k, format).body \in {"report", "error"})'
              /\ Dispatched(k)' = Dispatched(k)
              /\ datastore'[k] = datastore[k]]_vars

\* A status request has been answered 200 'ready'.
C3_Witness ==
    \E k \in Keys :
        /\ response.handler = "post" /\ response.uuid = k /\ IsReady(response)
        /\ Terminal(k)

\* C4: for a job in a terminal state every result query (resp, get) answers the same
\* as every earlier one: the stored payload, or the same failure answer.
C4_ResultIdempotent ==
    [][\A k \in Keys :
          Terminal(k) =>
              /\ resp_reply(k).body \in {"content", "empty"}
              /\ resp_reply(k)' = resp_reply(k)
              /\ \A format \in Formats : get_reply(k, format)' = get_reply(k, format)]_vars

\* A result query has returned the payload of a finished job while the other uuid has
\* been requested too.
C4_Witness ==
    \E k \in Keys :
        /\ response.handler = "resp" /\ response.uuid = k /\ response.body = "content"
        /\ Terminal(k) /\ response.content = futures[datastore[k]].result
        /\ \E other \in Keys \ {k} : datastore[other] # 0

\* A result answer: what resp or get send for a job that is done.
IsResult(r) == r.body \in {"content", "empty", "report", "error"}

\* C5: for a job whose pipeline raised, every result query (resp and get) answers a
\* failure carrying the stored error, never a successful or empty result.
C5_FailureSurfaced ==
    \A k \in Keys :
        (Failed(k) /\ response.uuid = k /\ IsResult(response)) =>
            /\ response.status = 500
            /\ response.error = futures[datastore[k]].error

\* C6: a status answer tells a failed job from a successful one: 'ready' is not
\* answered for a uuid whose pipeline raised.
C6_StatusTellsFailure ==
    \A k \in Keys :
        (response.handler = "post" /\ response.uuid = k /\ IsReady(response)) => ~Failed(k)

\* C7 as stated: a status query for a never-submitted uuid creates no job and
\* dispatches nothing.
C7_StatusIsPureRead ==
    [][\A k \in Keys :
          (datastore[k] = 0 /\ response' # response /\ response'.uuid = k
             /\ response'.handler = "post") =>
              UNCHANGED <<datastore, futures>>]_vars

\* C7 amended: for a never-submitted uuid the status query (availablitiy) answers 202
\* with an empty stage list and is no pure read: it stores one new future for the uuid
\* and dispatches its pipeline; the report page (get) is the pure read, it answers the
\* pending page and leaves datastore, executor and storage as they are.
C7_UnknownKey ==
    [][\A k \in Keys :
          (datastore[k] = 0 /\ response' # response /\ response'.uuid = k) =>
              IF response'.handler \in {"post", "resp"}
              THEN /\ response' = Reply(response'.handler, k, 202, "submitted", EmptyList, <<>>, "")
                   /\ availablitiy(response'.handler, k).status_info = EmptyList
                   /\ datastore'[k] # 0
                   /\ Dispatched(k) = {} /\ Dispatched(k)' = {datastore'[k]}
                   /\ \A other \in Keys \ {k} : datastore'[other] = datastore[other]
                   /\ files' = files
              ELSE /\ response'.body \in {"pending", "invalid_format"}
                   /\ UNCHANGED <<datastore, futures, files>>]_vars

\* The first status query for a uuid was answered while a status file of an earlier
\* lifetime lay on disk.
C7_Witness ==
    \E k \in Keys :
        /\ response.handler = "post" /\ response.uuid = k /\ response.body = "submitted"
        /\ files[k].status = StatusFile(StaleLog)
        /\ datastore[k] # 0

\* C8: result() is only retrieved from a future that is done, and a request for a job
\* that is absent or still running answers not ready at once (202, pending page).
C8_NotReadyWhileRunning ==
    \A k \in Keys :
        /\ (response.uuid = k /\ IsResult(response)) => Terminal(k)
        /\ ~Terminal(k) =>
               /\ resp_reply(k).status = 202
               /\ \A format \in {"notebook", "html"} : get_reply(k, format).body = "pending"

\* C9: a status query that meets the worker's write of the status file never raises.
C9_StatusNeverRaises ==
    response.body # "exception"

WellFormed(log) == \A n \in DOMAIN log : ~log[n].end => n = Len(log)

\* C10: after every update_status call of a pipeline execution the persisted status log
\* has at most one entry without 'end', and such an entry is the last one.
C10_OneOpenEntryLast ==
    \A i \in DOMAIN futures :
        LET f == futures[i]
            status_file == files[f.uuid].status
        IN  /\ f.writing => WellFormed(f.pend)
            /\ (f.pc \notin {"queued", "init"} /\ ~f.writing) =>
                   /\ Parsable(status_file)
                   /\ WellFormed(status_file.log)

\* Three update_status calls have completed: two closed entries and the open last one.
C10_Witness ==
    \E i \in DOMAIN futures :
        LET log == files[futures[i].uuid].status.log
        IN  /\ futures[i].pc = "get_issues" /\ ~futures[i].writing
            /\ Len(log) = 3 /\ log[1].end /\ log[2].end /\ ~log[3].end

\* C11: whenever a job is terminal, succeeded or failed, every entry of its status log
\* has its 'end' filled in.
C11_NoOpenEntryWhenTerminal ==
    \A k \in Keys :
        (Terminal(k) /\ Parsable(files[k].status)) =>
            \A n \in DOMAIN files[k].status.log : files[k].status.log[n].end

\* The status log of the execution f as written so far (flushed or about to be).
Logged(f) ==
    IF f.writing THEN f.pend
    ELSE IF Parsable(files[f.uuid].status) THEN files[f.uuid].status.log ELSE <<>>

Names(log) == {log[n].status : n \in DOMAIN log}

Reached(f, tier) == \E n \in DOMAIN f.checked : f.checked[n] = tier

GithubProducers == {"raw_data", "get_issues", "get_stargazers", "open_github"}

ComputedProducers == {"fetch_remotes", "clone_from", "commits", "open_computed"}

\* C12: when the GitHub artifact (or the computed artifact) exists as the execution
\* reaches its tier, the stage is logged as a load from the ephemeral cache, none of the
\* tier's producers is called (no raw data, issues or stargazers fetch; no clone, fetch
\* of remotes or commit analysis), and the artifact is not opened for writing.
C12_CachedTierIsLoaded ==
    \A i \in DOMAIN futures :
        LET f == futures[i]
            names == Names(Logged(f))
        IN  /\ (f.found.github /\ Reached(f, "github")) =>
                /\ "Load GitHub API data from ephemeral cache" \in names
                /\ names \cap {"Fetching GitHub API data", "Fetching GitHub issues data",
                               "Fetching GitHub stargazer data"} = {}
                /\ f.calls \cap GithubProducers = {}
                /\ files[f.uuid].github.exists
            /\ (f.found.computed /\ Reached(f, "computed")) =>
                /\ "Load commit from ephemeral cache" \in names
                /\ names \cap {"Fetching remotes from cached clone", "Cloning repo",
                               "Analysing commits"} = {}
                /\ f.calls \cap ComputedProducers = {}
                /\ files[f.uuid].computed.exists

\* An execution that found both artifacts has loaded them and returned.
C12_Witness ==
    \E i \in DOMAIN futures :
        /\ futures[i].found.github /\ futures[i].found.computed
        /\ futures[i].pc = "returned"
        /\ {"load_github", "load_computed"} \subseteq futures[i].calls

\* The stage entry under which each producer runs.
StageOf(producer) ==
    CASE producer = "get_issues" -> "Fetching GitHub issues data"
      [] producer = "get_stargazers" -> "Fetching GitHub stargazer data"
      [] producer = "fetch_remotes" -> "Fetching remotes from cached clone"
      [] producer = "clone_from" -> "Cloning repo"
      [] producer = "commits" -> "Analysing commits"
      [] OTHER -> NoMessage

LastLogged(f) == IF Logged(f) = <<>> THEN NoMessage ELSE Logged(f)[Len(Logged(f))].status

\* C13: when a producer of the GitHub tier (issues, stargazers) or of the computed tier
\* (fetch of remotes, clone, commit analysis) raises, the job is done with that error,
\* the tier's artifact does not exist, the earlier tier's artifact is persisted and
\* parsable, the failing stage is the last one logged, and nothing after it was called.
C13_ProducerFailure ==
    \A i \in DOMAIN futures :
        LET f == futures[i]
            disk == files[f.uuid]
        IN  /\ f.error \in {"get_issues", "get_stargazers"} =>
                /\ done(f) /\ f.result = <<>>
                /\ ~disk.github.exists
                /\ LastLogged(f) = StageOf(f.error)
                /\ f.calls \cap ({"open_github", "load_github", "load_computed"}
                                 \cup ComputedProducers) = {}
                /\ f.error = "get_issues" => "get_stargazers" \notin f.calls
            /\ f.error \in {"fetch_remotes", "clone_from", "commits"} =>
                /\ done(f) /\ f.result = <<>>
                /\ disk.github.exists /\ disk.github.ok
                /\ ~disk.computed.exists
                /\ LastLogged(f) = StageOf(f.error)
                /\ f.calls \cap {"open_computed", "load_computed"} = {}
                /\ f.error # "commits" => "commits" \notin f.calls

\* The commit analysis raised in an execution that had fetched and written the GitHub
\* artifact itself.
C13_Witness ==
    \E i \in DOMAIN futures :
        /\ futures[i].error = "commits"
        /\ "open_github" \in futures[i].calls
        /\ files[futures[i].uuid].github.ok

\* C14: an artifact that exists but cannot be parsed is treated as a cache miss: no job
\* ends with the error of loading an artifact.
C14_UnparsableIsCacheMiss ==
    \A i \in DOMAIN futures : futures[i].error \notin {"load_github", "load_computed"}

\* No worker is between open(cache, 'w') and the end of json.dump for the uuid.
NoWriter(uuid) ==
    \A i \in DOMAIN futures :
        futures[i].uuid = uuid => futures[i].pc \notin {"dump_github", "dump_computed"}

Whole(artifact) == artifact.exists => artifact.ok

\* C15: whatever step a worker is abandoned at, each artifact it leaves is absent or
\* complete, and no execution of a later lifetime fails on loading a partial artifact.
C15_AbandonedLeavesNoPartial ==
    /\ \A k \in Keys : NoWriter(k) => Whole(files[k].github) /\ Whole(files[k].computed)
    /\ \A i \in DOMAIN futures : futures[i].error \notin {"load_github", "load_computed"}

StageNames(log) == [n \in DOMAIN log |-> log[n].status]

IsPrefix(s, t) == Len(s) <= Len(t) /\ \A n \in DOMAIN s : s[n] = t[n]

\* The stage sequence a status query for uuid returns, or, while update_status is
\* rewriting the file, the one it returns once the write is flushed.
Visible(uuid) ==
    LET writers == {i \in DOMAIN futures : futures[i].uuid = uuid /\ futures[i].writing}
    IN  IF writers # {} THEN futures[CHOOSE i \in writers : TRUE].pend
        ELSE IF Parsable(files[uuid].status) THEN files[uuid].status.log
        ELSE <<>>

\* The stored execution has not written its first entry yet.
NothingLogged(uuid) == futures[datastore[uuid]].pc \in {"queued", "init"}

\* C16: within one datastore lifetime, whatever the storage held at its start, the
\* stage sequence answered to status queries for a uuid only grows by name prefix from
\* one step to the next, and no query answers entries that an earlier execution wrote
\* (before the stored execution has logged anything the answered sequence is empty).
C16_StatusOnlyGrows ==
    [][\A k \in Keys :
          (InDatastore(k) /\ InDatastore(k)') =>
              /\ IsPrefix(StageNames(Visible(k)), StageNames(Visible(k)'))
              /\ NothingLogged(k) => availablitiy("post", k).status_info.entries = <<>>]_vars

Before(f, first, second) ==
    \E m, n \in DOMAIN f.checked :
        m < n /\ f.checked[m] = first /\ f.checked[n] = second

\* C17: in every execution the existence of the clone is checked after that of the
\* GitHub artifact and before that of the computed artifact.
C17_MirrorBeforeAnalysis ==
    \A i \in DOMAIN futures :
        Reached(futures[i], "computed") =>
            /\ Before(futures[i], "github", "mirror")
            /\ Before(futures[i], "mirror", "computed")

\* C17 as the code has it: the existence checks are made in the order GitHub artifact,
\* computed artifact, clone; the clone is looked for exactly when the computed artifact
\* was found missing, and it is fetched or cloned only after both checks.
C17_AnalysisBeforeMirror ==
    \A i \in DOMAIN futures :
        LET f == futures[i]
        IN  /\ f.checked \in {<<>>, <<"github">>, <<"github", "computed">>,
                              <<"github", "computed", "mirror">>}
            /\ Reached(f, "computed") => (Reached(f, "mirror") <=> ~f.found.computed)
            /\ f.calls \cap {"fetch_remotes", "clone_from"} # {} => Reached(f, "mirror")

\* An execution found no computed artifact, then no clone, and cloned.
C17_Witness ==
    \E i \in DOMAIN futures :
        /\ futures[i].checked = <<"github", "computed", "mirror">>
        /\ "clone_from" \in futures[i].calls

\* C18: every execution that starts while the clone of its uuid exists, and runs to its
\* end, has fetched the remotes of the clone, whatever artifacts exist.
C18_MirrorAlwaysUpdated ==
    \A i \in DOMAIN futures :
        (futures[i].found.mirror /\ futures[i].pc = "returned") =>
            "fetch_remotes" \in futures[i].calls

\* C18 as the code has it: an execution that starts while the clone exists never clones
\* again; it fetches the remotes exactly when the computed artifact is missing (the
\* commits are then analysed on the updated clone), and leaves the clone alone when the
\* computed artifact exists.
C18_MirrorUpdatedWhenAnalysing ==
    \A i \in DOMAIN futures :
        LET f == futures[i]
        IN  f.found.mirror =>
                /\ "clone_from" \notin f.calls
                /\ files[f.uuid].mirror
                /\ Reached(f, "mirror") =>
                       "Fetching remotes from cached clone" \in Names(Logged(f))
                /\ "commits" \in f.calls => "fetch_remotes" \in f.calls
                /\ f.found.computed => "fetch_remotes" \notin f.calls
                /\ f.pc = "returned" => ("fetch_remotes" \in f.calls <=> ~f.found.computed)

\* An execution that found the clone and no computed artifact has fetched the remotes,
\* analysed the commits and returned.
C18_Witness ==
    \E i \in DOMAIN futures :
        /\ futures[i].found.mirror /\ ~futures[i].found.computed
        /\ futures[i].pc = "returned"
        /\ {"fetch_remotes", "commits"} \subseteq futures[i].calls

SixStages ==
    <<"Initial validation of repo", "Fetching GitHub API data",
      "Fetching GitHub issues data", "Fetching GitHub stargazer data",
      "Cloning repo", "Analysing commits">>

\* C19: an execution that starts with neither artifact nor clone on disk and returns
\* has logged exactly the six stages, once each and in order (validation, GitHub API
\* data, issues, stargazers, clone, commit analysis), all of them closed, has written
\* both artifacts with the data it returns, and has no exception.
C19_FreshRunSixStages ==
    \A i \in DOMAIN futures :
        LET f == futures[i]
            disk == files[f.uuid]
        IN  (f.found = NothingFound /\ f.pc = "returned") =>
                /\ StageNames(Logged(f)) = SixStages
                /\ \A n \in DOMAIN Logged(f) : Logged(f)[n].end
                /\ disk.github = Artifact(f.report)
                /\ disk.computed = Artifact(f.repo_data)
                /\ disk.mirror
                /\ done(f) /\ f.error = "" /\ f.result = payload(f)

\* An execution over an empty storage has returned.
C19_Witness ==
    \E i \in DOMAIN futures :
        /\ futures[i].found = NothingFound
        /\ futures[i].pc = "returned"
        /\ files[futures[i].uuid].status # NoFile

\* C20: with the pool running and every call of a worker returning or raising, every
\* job in the datastore is done in the end, also the ones that had to wait for a pool
\* process, and a client that polls the uuid is then answered 200.
C20_EveryJobEnds ==
    \A k \in Keys : InDatastore(k) ~> (Terminal(k) /\ IsReady(availablitiy("post", k)))

\* More jobs were submitted than the pool has processes, and all of them are done.
C20_Witness ==
    /\ Len(futures) > MaxWorkers
    /\ \A i \in DOMAIN futures : done(futures[i])
    /\ \A k \in Keys : InDatastore(k) /\ IsReady(availablitiy("post", k))

====
